---- MODULE Spec2Model ----
(***************************************************************************)
(* Custodial wallet key management and transaction signing of the         *)
(* ArbitrumSmartchain server: the REST routes (routes.ts), the            *)
(* TransactionService, the WalletService, the ContractService and the     *)
(* DatabaseStorage they persist to.                                       *)
(*                                                                         *)
(* Every request is a small sequential process; one action is one piece   *)
(* of a handler between two awaits that touch shared state (the database  *)
(* or the RPC provider).  Requests interleave at those awaits only, which *)
(* is how the Node event loop schedules them.                             *)
(***************************************************************************)
EXTENDS Integers, Sequences, FiniteSets, TLC

----------------------------------------------------------------------------
(* Bounds of the model *)

\* number of requests the server handles in one behaviour
MaxRequests == 3
\* number of rows POST /api/transactions may add in one behaviour
MaxPosted == 1
\* number of transactions sent to the betting contract in one behaviour
MaxCalls == 3
\* block.timestamp runs from 0 to MaxTime
MaxTime == 2
\* rows POST /api/bet/test adds to table bets
MaxBets == 1

\* requests in flight at the same time
Slots == {1, 2}

Usernames == {"alice", "bob"}
Passwords == {"pw1", "pw2"}
Salts == {"s1"}

\* contract types a client may ask for; the last one has no template
ContractTypes == {"SimpleStorage", "Lottery"}

\* messages the RPC provider rejects a submission with, and a mined
\* transaction that reverted
SubmitErrors == {"insufficient funds for gas", "network unreachable"}
WaitErrors == {"execution reverted"}

\* hashes a client may send to POST /api/transactions: the hash of the first
\* transaction of the chain, in lower and in upper case
PostHashes == {[n |-> 1, cs |-> "lc"], [n |-> 1, cs |-> "uc"]}
PostStatuses == {"pending"}
\* the statuses the client posts when the receipt of its transaction is in
MinedStatuses == {"success", "failed"}

----------------------------------------------------------------------------
(* Values *)

\* hex strings: n identifies the value, cs its letter case
NoAddr == [kind |-> "null", n |-> 0, cs |-> "lc"]
WalletAddr(k) == [kind |-> "wallet", n |-> k, cs |-> "ck"]
ContractAddr(n) == [kind |-> "contract", n |-> n, cs |-> "ck"]
NoHash == [n |-> 0, cs |-> "lc"]
TxHash(n) == [n |-> n, cs |-> "lc"]

\* contract addresses a client may send to POST /api/execute
CallAddrs == {[kind |-> "contract", n |-> 1, cs |-> "lc"], ContractAddr(2)}

\* String.prototype.toLowerCase / SQL LOWER on a hex string
ToLower(x) == [x EXCEPT !.cs = "lc"]

\* scryptSync(password, salt, 64): an injective digest of (password, salt)
Scrypt(password, salt) == <<password, salt>>

\* WalletService.hashPassword, the salt being what randomBytes(16) drew
hashPassword(password, salt) == [salt |-> salt, hash |-> Scrypt(password, salt)]

\* a verifyPassword that accepts every password once the salt is there
verifyPasswordOfAnyone(password, hashedPassword) ==
    hashedPassword.salt # ""

\* WalletService.verifyPassword
verifyPassword(password, hashedPassword) ==
    Scrypt(password, hashedPassword.salt) = hashedPassword.hash

\* wallet.encrypt(password): a keystore JSON that only `password` opens.
\* form tells what the text is: a keystore, a keystore cut short, text that
\* is no JSON at all, or the null of a row without a wallet
NoBlob == [form |-> "null", key |-> 0, pw |-> ""]

\* an encryption that locks every keystore with one built-in password
encryptWalletWithFixedPassword(key, password) ==
    [form |-> "keystore", key |-> key, pw |-> "pw1"]

encryptWallet(key, password) == [form |-> "keystore", key |-> key, pw |-> password]

\* WalletService.createWallet, key being what Wallet.createRandom drew
createWallet(key, password) ==
    [address |-> WalletAddr(key), encryptedJson |-> encryptWallet(key, password)]

\* ethers.Wallet.fromEncryptedJson: the wallet, or the error ethers throws,
\* which tells an unreadable text from a wrong password
fromEncryptedJson(encryptedJson, password) ==
    IF encryptedJson.form # "keystore"
    THEN [ok |-> FALSE, privateKey |-> 0, address |-> NoAddr,
          error |-> "invalid JSON wallet"]
    ELSE IF encryptedJson.pw # password
    THEN [ok |-> FALSE, privateKey |-> 0, address |-> NoAddr,
          error |-> "incorrect password"]
    ELSE [ok |-> TRUE, privateKey |-> encryptedJson.key,
          address |-> WalletAddr(encryptedJson.key), error |-> ""]

\* WalletService.decryptWallet: the wallet, or ok = FALSE when it throws
\* its one error
DecryptError == "Invalid password or corrupted wallet data"
NoWallet == [ok |-> FALSE, privateKey |-> 0, address |-> NoAddr, error |-> DecryptError]

\* a decryptWallet whose catch rethrows what ethers threw
decryptWalletRethrowing(encryptedJson, password) ==
    fromEncryptedJson(encryptedJson, password)

decryptWallet(encryptedJson, password) ==
    LET wallet == fromEncryptedJson(encryptedJson, password)
    IN IF wallet.ok THEN wallet ELSE NoWallet

\* compileContract whose switch falls through to a template instead of throwing
compileContractAnyType(contractType) ==
    CASE contractType = "ERC20Token" -> "erc20"
      [] contractType \in {"BettingContract", "Betting Contract"} -> "bettingContract"
      [] OTHER -> "simpleStorage"

\* ContractService.compileContract: the template of a type, "" when it throws
compileContract(contractType) ==
    CASE contractType = "SimpleStorage" -> "simpleStorage"
      [] contractType = "ERC20Token" -> "erc20"
      [] contractType \in {"BettingContract", "Betting Contract"} -> "bettingContract"
      [] OTHER -> ""

CompileError == "Contract type not supported"
UserError == "User or wallet not found"
ContractError == "Contract not found"
DuplicateKey == "duplicate key value violates unique constraint"

----------------------------------------------------------------------------
(* BettingContract.sol: accounts, amounts and the state after deployment *)

\* externally owned accounts; the first deploys the contract and owns it
Owner == "owner"
Accounts == {"owner", "user1"}

\* ether every account holds before the contract is deployed
StartEther == [a \in Accounts \cup {"contract"} |-> IF a = "contract" THEN 0 ELSE 100]

\* constructor(_minBetAmount, _maxBetAmount, _houseEdgePercent) as the
\* deployment calls it, in wei and in basis points
ConstructorArgs == [minBetAmount |-> 2, maxBetAmount |-> 4, houseEdgePercent |-> 500]

\* the storage of the contract when the constructor has run
Deployed ==
    [owner |-> Owner, paused |-> FALSE,
     minBetAmount |-> ConstructorArgs.minBetAmount,
     maxBetAmount |-> ConstructorArgs.maxBetAmount,
     houseEdgePercent |-> ConstructorArgs.houseEdgePercent,
     totalContractBalance |-> 0, totalBets |-> 0, totalBetsResolved |-> 0,
     bets |-> <<>>, userBets |-> [a \in Accounts |-> <<>>]]

\* the receipt of a transaction sent to the contract; n counts them
NoCall ==
    [n |-> 0, fn |-> "none", sender |-> "", value |-> 0, arg |-> 0, didWin |-> FALSE,
     status |-> "none", reason |-> "", payout |-> 0]

\* what a caller of the WalletService holds: the last wallet it encrypted,
\* the blob as it is stored, the last password it hashed, and the results
NoTrial ==
    [key |-> 0, password |-> "", encryptedJson |-> NoBlob, tried |-> "",
     wallet |-> NoWallet, opened |-> FALSE,
     hashed |-> "", hashedPassword |-> [salt |-> "", hash |-> <<>>],
     checked |-> "", valid |-> FALSE, compared |-> FALSE]

----------------------------------------------------------------------------
(* State *)

VARIABLES
    users,          \* rows of table users, in insertion order
    contracts,      \* rows of table contracts
    transactions,   \* rows of table transactions
    chain,          \* transactions the RPC provider accepted, in order
    req,            \* the request each slot handles
    started,        \* requests started so far
    posted,         \* rows added through POST /api/transactions
    nextKey,        \* private keys Wallet.createRandom has produced
    betting,        \* storage of the deployed BettingContract
    ether,          \* ether balance of the contract and of the accounts
    blockTime,      \* block.timestamp
    lastCall,       \* receipt of the last transaction sent to the contract
    wcall,          \* what a direct caller of the WalletService holds
    bets            \* rows of table bets

\* the chain the contract lives on
evm == <<betting, ether, blockTime, lastCall>>

\* the server and its database
server == <<users, contracts, transactions, chain, req, started, posted, nextKey, bets>>

vars == <<users, contracts, transactions, chain, req, started, posted, nextKey,
          betting, ether, blockTime, lastCall, wcall, bets>>

NoThrow == [message |-> "", origin |-> "none"]
NoResp == [status |-> 0, message |-> ""]

Idle ==
    [route |-> "idle", pc |-> "idle", username |-> "", password |-> "",
     ctype |-> "", caddr |-> NoAddr, betId |-> 0, user |-> <<>>, abi |-> "",
     wallet |-> NoWallet, address |-> NoAddr, txHash |-> NoHash,
     gate |-> "none", verified |-> FALSE, decryptTried |-> FALSE,
     decrypted |-> FALSE, submitted |-> FALSE, waited |-> FALSE,
     contractSaved |-> FALSE, txSaved |-> FALSE,
     thrown |-> NoThrow, resp |-> NoResp]

Init ==
    /\ users = <<>>
    /\ contracts = <<>>
    /\ transactions = <<>>
    /\ chain = <<>>
    /\ req = [r \in Slots |-> Idle]
    /\ started = 0
    /\ posted = 0
    /\ nextKey = 0
    /\ betting = Deployed
    /\ ether = StartEther
    /\ blockTime = 0
    /\ lastCall = NoCall
    /\ wcall = NoTrial
    /\ bets = <<>>

----------------------------------------------------------------------------
(* DatabaseStorage *)

Range(s) == {s[i] : i \in 1..Len(s)}

\* SELECT * FROM users WHERE username = $1: <<row>> or <<>>
getUserByUsername(username) ==
    SelectSeq(users, LAMBDA u : u.username = username)

\* SELECT * FROM contracts WHERE LOWER(address) = LOWER($1)
getContractByAddress(address) ==
    SelectSeq(contracts, LAMBDA c : ToLower(c.address) = ToLower(address))

\* INSERT INTO users: username and wallet_address are UNIQUE
canCreateUser(insertUser) ==
    /\ \A u \in Range(users) : u.username # insertUser.username
    /\ \/ insertUser.walletAddress = NoAddr
       \/ \A u \in Range(users) : u.walletAddress # insertUser.walletAddress

\* INSERT INTO contracts: address is UNIQUE
canCreateContract(insertContract) ==
    \A c \in Range(contracts) : c.address # insertContract.address

\* INSERT INTO transactions: hash is UNIQUE
canCreateTransaction(insertTransaction) ==
    \A t \in Range(transactions) : t.hash # insertTransaction.hash

----------------------------------------------------------------------------
(* Requests *)

\* A response is visible in the state its handler ends in (pc = "done"); the
\* handler's frame is gone at the next step of the server
live == [r \in Slots |-> IF req[r].pc = "done" THEN Idle ELSE req[r]]

Free(r) == live[r].pc = "idle" /\ started < MaxRequests

Begin(route, pc, username, password) ==
    [Idle EXCEPT !.route = route, !.pc = pc,
                 !.username = username, !.password = password]

\* the message of the 500 response of each route's catch block
RouteFailure(route) ==
    CASE route = "register" -> "Failed to register user"
      [] route = "decrypt" -> "Failed to decrypt wallet"
      [] route = "deploy" -> "Failed to deploy contract"
      [] route = "execute" -> "Failed to execute contract method"
      [] route = "bet" -> "Failed to create bet"
      [] route = "read" -> "Failed to read contract data"
      [] route = "accept_test" -> "Failed to accept test bet"
      [] OTHER -> ""

\* res.status(status).json({message}) and return
Respond(q, status, message) ==
    [q EXCEPT !.pc = "done", !.resp = [status |-> status, message |-> message]]

\* an exception leaves the service (its catch logs and rethrows) and ends in
\* the catch block of the route, which answers 500 with the route's message;
\* signAndSendTransaction has no route and only rethrows
Throw(q, message, origin) ==
    [q EXCEPT !.pc = "done",
              !.thrown = [message |-> message, origin |-> origin],
              !.resp = IF q.route = "sign" THEN NoResp
                       ELSE [status |-> 500, message |-> RouteFailure(q.route)]]

HasWallet(found) == Len(found) = 1 /\ found[1].walletEncryptedJson # NoBlob

----------------------------------------------------------------------------
(* POST /api/register *)

StartRegister(r, username, password) ==
    /\ Free(r)
    /\ req' = [live EXCEPT ![r] = Begin("register", "reg_check", username, password)]
    /\ started' = started + 1
    /\ UNCHANGED <<users, contracts, transactions, chain, posted, nextKey, evm, wcall, bets>>

\* the 'username already taken' check
RegisterCheck(r) ==
    /\ req[r].pc = "reg_check"
    /\ LET existingUser == getUserByUsername(req[r].username)
       IN req' = [live EXCEPT ![r] =
                    IF Len(existingUser) > 0
                    THEN Respond(@, 400, "Username already taken")
                    ELSE [@ EXCEPT !.pc = "reg_create"]]
    /\ UNCHANGED <<users, contracts, transactions, chain, started, posted, nextKey, evm, wcall, bets>>

\* a registration that leaves the encrypted wallet out of the row
UserRowWithoutBlob(id, username, hashedPassword, walletData) ==
    [id |-> id, username |-> username, password |-> hashedPassword,
     walletAddress |-> walletData.address, walletEncryptedJson |-> NoBlob]

\* the row createUser inserts for the arguments the route passes
UserRow(id, username, hashedPassword, walletData) ==
    [id |-> id, username |-> username, password |-> hashedPassword,
     walletAddress |-> walletData.address,
     walletEncryptedJson |-> walletData.encryptedJson]

\* createUser of a store without the UNIQUE constraints (what MemStorage does)
createUserUnchecked(row) == Append(users, row)

\* DatabaseStorage.createUser: the table after the INSERT; unchanged when a
\* UNIQUE constraint rejects the row
createUser(row) ==
    IF canCreateUser(row) THEN Append(users, row) ELSE users

\* createWallet, hashPassword, createUser and the 201 response
RegisterCreate(r) ==
    /\ req[r].pc = "reg_create"
    /\ \E salt \in Salts :
         LET walletData == createWallet(nextKey + 1, req[r].password)
             hashedPassword == hashPassword(req[r].password, salt)
             row == UserRow(Len(users) + 1, req[r].username, hashedPassword, walletData)
         IN /\ users' = createUser(row)
            /\ req' = [live EXCEPT ![r] =
                         IF users' # users
                         THEN Respond([@ EXCEPT !.address = walletData.address], 201, "created")
                         ELSE Throw(@, DuplicateKey, "db")]
    /\ nextKey' = nextKey + 1
    /\ UNCHANGED <<contracts, transactions, chain, started, posted, evm, wcall, bets>>

----------------------------------------------------------------------------
(* POST /api/login: setupAuth registers passport.authenticate("local") on   *)
(* the path before routes.ts registers its own handler, so passport answers *)

\* a login that tells an unknown username from a wrong password
loginResponseTelling(username, password) ==
    LET user == getUserByUsername(username)
    IN IF Len(user) = 0 THEN [status |-> 404, message |-> "User not found"]
       ELSE IF ~verifyPassword(password, user[1].password)
            THEN [status |-> 401, message |-> "Invalid password"]
            ELSE [status |-> 200, message |-> "ok"]

\* the LocalStrategy callback and what passport answers: done(null, false)
\* becomes 401 Unauthorized, done(null, user) reaches the handler's res.json
loginResponse(username, password) ==
    LET user == getUserByUsername(username)
    IN IF Len(user) = 0 THEN [status |-> 401, message |-> "Unauthorized"]
       ELSE IF ~verifyPassword(password, user[1].password)
            THEN [status |-> 401, message |-> "Unauthorized"]
            ELSE [status |-> 200, message |-> "ok"]

StartLogin(r, username, password) ==
    /\ Free(r)
    /\ req' = [live EXCEPT ![r] = Begin("login", "log_verify", username, password)]
    /\ started' = started + 1
    /\ UNCHANGED <<users, contracts, transactions, chain, posted, nextKey, evm, wcall, bets>>

\* storage.getUserByUsername, verifyPassword and the response
LoginVerify(r) ==
    /\ req[r].pc = "log_verify"
    /\ LET answer == loginResponse(req[r].username, req[r].password)
       IN req' = [live EXCEPT ![r] = Respond(@, answer.status, answer.message)]
    /\ UNCHANGED <<users, contracts, transactions, chain, started, posted, nextKey, evm, wcall, bets>>

----------------------------------------------------------------------------
(* POST /api/wallet/decrypt *)

StartDecrypt(r, username, password) ==
    /\ Free(r)
    /\ req' = [live EXCEPT ![r] = Begin("decrypt", "dec_lookup", username, password)]
    /\ started' = started + 1
    /\ UNCHANGED <<users, contracts, transactions, chain, posted, nextKey, evm, wcall, bets>>

\* getUserByUsername, then verifyPassword against the stored hash
DecryptLookup(r) ==
    /\ req[r].pc = "dec_lookup"
    /\ LET user == getUserByUsername(req[r].username)
       IN req' = [live EXCEPT ![r] =
                    IF ~HasWallet(user)
                    THEN Respond([@ EXCEPT !.gate = "NotFound"], 404, "Wallet not found")
                    ELSE IF ~verifyPassword(req[r].password, user[1].password)
                    THEN Respond([@ EXCEPT !.user = user, !.gate = "InvalidCredential"],
                                 401, "Invalid password")
                    ELSE [@ EXCEPT !.user = user, !.gate = "Record",
                                   !.verified = TRUE, !.pc = "dec_open"]]
    /\ UNCHANGED <<users, contracts, transactions, chain, started, posted, nextKey, evm, wcall, bets>>

\* walletService.decryptWallet and the 200 response with the private key
DecryptOpen(r) ==
    /\ req[r].pc = "dec_open"
    /\ LET wallet == decryptWallet(req[r].user[1].walletEncryptedJson, req[r].password)
       IN req' = [live EXCEPT ![r] =
                    IF wallet.ok
                    THEN Respond([@ EXCEPT !.decryptTried = TRUE, !.decrypted = TRUE,
                                           !.wallet = wallet], 200, "ok")
                    ELSE Throw([@ EXCEPT !.decryptTried = TRUE], DecryptError, "wallet")]
    /\ UNCHANGED <<users, contracts, transactions, chain, started, posted, nextKey, evm, wcall, bets>>

----------------------------------------------------------------------------
(* TransactionService.deployContract, behind POST /api/deploy and, through *)
(* TransactionService.createBet, behind POST /api/bet                      *)

StartDeploy(r, username, password, contractType) ==
    /\ Free(r)
    /\ req' = [live EXCEPT ![r] =
                 [Begin("deploy", "dep_lookup", username, password)
                    EXCEPT !.ctype = contractType]]
    /\ started' = started + 1
    /\ UNCHANGED <<users, contracts, transactions, chain, posted, nextKey, evm, wcall, bets>>

\* createBet deploys the type "Betting Contract"
StartCreateBet(r, username, password) ==
    /\ Free(r)
    /\ req' = [live EXCEPT ![r] =
                 [Begin("bet", "dep_lookup", username, password)
                    EXCEPT !.ctype = "Betting Contract"]]
    /\ started' = started + 1
    /\ UNCHANGED <<users, contracts, transactions, chain, posted, nextKey, evm, wcall, bets>>

\* storage.getUserByUsername and the 'User or wallet not found' check
DeployLookup(r) ==
    /\ req[r].pc = "dep_lookup"
    /\ LET user == getUserByUsername(req[r].username)
       IN req' = [live EXCEPT ![r] =
                    IF ~HasWallet(user)
                    THEN Throw([@ EXCEPT !.gate = "NotFound"], UserError, "service")
                    ELSE [@ EXCEPT !.user = user, !.gate = "Record",
                                   !.pc = "dep_compile"]]
    /\ UNCHANGED <<users, contracts, transactions, chain, started, posted, nextKey, evm, wcall, bets>>

\* contractService.compileContract(contractType)
DeployCompile(r) ==
    /\ req[r].pc = "dep_compile"
    /\ LET compiledContract == compileContract(req[r].ctype)
       IN req' = [live EXCEPT ![r] =
                    IF compiledContract = ""
                    THEN Throw(@, CompileError, "service")
                    ELSE [@ EXCEPT !.abi = compiledContract, !.pc = "dep_decrypt"]]
    /\ UNCHANGED <<users, contracts, transactions, chain, started, posted, nextKey, evm, wcall, bets>>

\* a deployContract that takes a per-account lock before it decrypts
DeployDecryptLocked(r) ==
    /\ req[r].pc = "dep_decrypt"
    /\ \A q \in Slots \ {r} :
          ~(req[q].decrypted /\ req[q].pc # "done" /\ req[q].username = req[r].username)
    /\ LET wallet == decryptWallet(req[r].user[1].walletEncryptedJson, req[r].password)
       IN req' = [live EXCEPT ![r] =
                    IF wallet.ok
                    THEN [@ EXCEPT !.decryptTried = TRUE, !.decrypted = TRUE,
                                   !.wallet = wallet, !.pc = "dep_submit"]
                    ELSE Throw([@ EXCEPT !.decryptTried = TRUE], DecryptError, "wallet")]
    /\ UNCHANGED <<users, contracts, transactions, chain, started, posted, nextKey, evm, wcall, bets>>

\* walletService.decryptWallet(user.walletEncryptedJson, password)
DeployDecrypt(r) ==
    /\ req[r].pc = "dep_decrypt"
    /\ LET wallet == decryptWallet(req[r].user[1].walletEncryptedJson, req[r].password)
       IN req' = [live EXCEPT ![r] =
                    IF wallet.ok
                    THEN [@ EXCEPT !.decryptTried = TRUE, !.decrypted = TRUE,
                                   !.wallet = wallet, !.pc = "dep_submit"]
                    ELSE Throw([@ EXCEPT !.decryptTried = TRUE], DecryptError, "wallet")]
    /\ UNCHANGED <<users, contracts, transactions, chain, started, posted, nextKey, evm, wcall, bets>>

\* the transaction the provider records when it accepts a submission
ChainTx(from, to, creates) ==
    [hash |-> TxHash(Len(chain) + 1), from |-> from, to |-> to, creates |-> creates]

\* a deploy that persists without waiting for the deployment to be mined
DeploySubmitNoWait(r) ==
    /\ req[r].pc = "dep_submit"
    /\ \/ LET tx == ChainTx(req[r].wallet.address, NoAddr, ContractAddr(Len(chain) + 1))
          IN /\ chain' = Append(chain, tx)
             /\ req' = [live EXCEPT ![r] =
                          [@ EXCEPT !.submitted = TRUE, !.txHash = tx.hash,
                                    !.address = tx.creates, !.pc = "dep_saveContract"]]
       \/ /\ \E e \in SubmitErrors :
               req' = [live EXCEPT ![r] = Throw(@, e, "provider")]
          /\ UNCHANGED chain
    /\ UNCHANGED <<users, contracts, transactions, started, posted, nextKey, evm, wcall, bets>>

\* factory.deploy(...constructorArgs): the provider accepts the
\* contract-creation transaction, or rejects it and deploy throws
DeploySubmit(r) ==
    /\ req[r].pc = "dep_submit"
    /\ \/ LET tx == ChainTx(req[r].wallet.address, NoAddr, ContractAddr(Len(chain) + 1))
          IN /\ chain' = Append(chain, tx)
             /\ req' = [live EXCEPT ![r] =
                          [@ EXCEPT !.submitted = TRUE, !.txHash = tx.hash,
                                    !.address = tx.creates, !.pc = "dep_wait"]]
       \/ /\ \E e \in SubmitErrors :
               req' = [live EXCEPT ![r] = Throw(@, e, "provider")]
          /\ UNCHANGED chain
    /\ UNCHANGED <<users, contracts, transactions, started, posted, nextKey, evm, wcall, bets>>

\* contract.deploymentTransaction()?.wait(): mined, or reverted and wait throws
DeployWait(r) ==
    /\ req[r].pc = "dep_wait"
    /\ \/ req' = [live EXCEPT ![r] = [@ EXCEPT !.waited = TRUE, !.pc = "dep_saveContract"]]
       \/ \E e \in WaitErrors :
            req' = [live EXCEPT ![r] = Throw(@, e, "provider")]
    /\ UNCHANGED <<users, contracts, transactions, chain, started, posted, nextKey, evm, wcall, bets>>

\* DatabaseStorage.createContract: the table after the INSERT; unchanged when
\* the UNIQUE constraint rejects the row
createContract(row) ==
    IF canCreateContract(row) THEN Append(contracts, row) ELSE contracts

\* createTransaction of a store without the UNIQUE constraint on hash
createTransactionUnchecked(row) == Append(transactions, row)

\* a createTransaction that overwrites the row of the same hash (an upsert)
createTransactionOverwriting(row) ==
    IF canCreateTransaction(row) THEN Append(transactions, row)
    ELSE [i \in 1..Len(transactions) |->
            IF transactions[i].hash = row.hash THEN row ELSE transactions[i]]

\* DatabaseStorage.createTransaction, likewise
createTransaction(row) ==
    IF canCreateTransaction(row) THEN Append(transactions, row) ELSE transactions

\* contractData and storage.createContract(contractData)
DeploySaveContract(r) ==
    /\ req[r].pc = "dep_saveContract"
    /\ LET contractData ==
             [address |-> req[r].address, contractType |-> req[r].ctype,
              abi |-> req[r].abi, deployedByAddress |-> req[r].user[1].walletAddress]
       IN /\ contracts' = createContract(contractData)
          /\ req' = [live EXCEPT ![r] =
                       IF contracts' # contracts
                       THEN [@ EXCEPT !.contractSaved = TRUE, !.pc = "dep_saveTx"]
                       ELSE Throw(@, DuplicateKey, "db")]
    /\ UNCHANGED <<users, transactions, chain, started, posted, nextKey, evm, wcall, bets>>

\* txData, storage.createTransaction(txData) and the return of
\* {address, transactionHash}
DeploySaveTx(r) ==
    /\ req[r].pc = "dep_saveTx"
    /\ LET txData ==
             [hash |-> req[r].txHash, from |-> req[r].user[1].walletAddress,
              to |-> NoAddr, contractAddress |-> req[r].address,
              status |-> "pending", type |-> "deploy"]
       IN /\ transactions' = createTransaction(txData)
          /\ req' = [live EXCEPT ![r] =
                       IF transactions' # transactions
                       THEN Respond([@ EXCEPT !.txSaved = TRUE], 200, "ok")
                       ELSE Throw(@, DuplicateKey, "db")]
    /\ UNCHANGED <<users, contracts, chain, started, posted, nextKey, evm, wcall, bets>>

----------------------------------------------------------------------------
(* TransactionService.executeContractMethod, behind POST /api/execute *)

StartExecute(r, username, password, contractAddress) ==
    /\ Free(r)
    /\ req' = [live EXCEPT ![r] =
                 [Begin("execute", "exe_lookup", username, password)
                    EXCEPT !.caddr = contractAddress]]
    /\ started' = started + 1
    /\ UNCHANGED <<users, contracts, transactions, chain, posted, nextKey, evm, wcall, bets>>

\* storage.getUserByUsername and the 'User or wallet not found' check
ExecuteLookup(r) ==
    /\ req[r].pc = "exe_lookup"
    /\ LET user == getUserByUsername(req[r].username)
       IN req' = [live EXCEPT ![r] =
                    IF ~HasWallet(user)
                    THEN Throw([@ EXCEPT !.gate = "NotFound"], UserError, "service")
                    ELSE [@ EXCEPT !.user = user, !.gate = "Record",
                                   !.pc = "exe_contract"]]
    /\ UNCHANGED <<users, contracts, transactions, chain, started, posted, nextKey, evm, wcall, bets>>

\* an executeContractMethod that does not stop when the contract is unknown
ExecuteContractUnchecked(r) ==
    /\ req[r].pc = "exe_contract"
    /\ LET contract == getContractByAddress(req[r].caddr)
       IN req' = [live EXCEPT ![r] =
                    [@ EXCEPT !.abi = IF Len(contract) = 0 THEN "" ELSE contract[1].abi,
                              !.pc = "exe_decrypt"]]
    /\ UNCHANGED <<users, contracts, transactions, chain, started, posted, nextKey, evm, wcall, bets>>

\* storage.getContractByAddress and the 'Contract not found' check
ExecuteContract(r) ==
    /\ req[r].pc = "exe_contract"
    /\ LET contract == getContractByAddress(req[r].caddr)
       IN req' = [live EXCEPT ![r] =
                    IF Len(contract) = 0
                    THEN Throw(@, ContractError, "service")
                    ELSE [@ EXCEPT !.abi = contract[1].abi, !.pc = "exe_decrypt"]]
    /\ UNCHANGED <<users, contracts, transactions, chain, started, posted, nextKey, evm, wcall, bets>>

\* walletService.decryptWallet(user.walletEncryptedJson, password)
ExecuteDecrypt(r) ==
    /\ req[r].pc = "exe_decrypt"
    /\ LET wallet == decryptWallet(req[r].user[1].walletEncryptedJson, req[r].password)
       IN req' = [live EXCEPT ![r] =
                    IF wallet.ok
                    THEN [@ EXCEPT !.decryptTried = TRUE, !.decrypted = TRUE,
                                   !.wallet = wallet, !.pc = "exe_submit"]
                    ELSE Throw([@ EXCEPT !.decryptTried = TRUE], DecryptError, "wallet")]
    /\ UNCHANGED <<users, contracts, transactions, chain, started, posted, nextKey, evm, wcall, bets>>

\* contractInstance[methodName](...args, {value}): the provider accepts the
\* call, or rejects it (gas, network, a revert found when estimating gas)
ExecuteSubmit(r) ==
    /\ req[r].pc = "exe_submit"
    /\ \/ LET tx == ChainTx(req[r].wallet.address, req[r].caddr, NoAddr)
          IN /\ chain' = Append(chain, tx)
             /\ req' = [live EXCEPT ![r] =
                          [@ EXCEPT !.submitted = TRUE, !.txHash = tx.hash,
                                    !.pc = "exe_saveTx"]]
       \/ /\ \E e \in SubmitErrors \cup WaitErrors :
               req' = [live EXCEPT ![r] = Throw(@, e, "provider")]
          /\ UNCHANGED chain
    /\ UNCHANGED <<users, contracts, transactions, started, posted, nextKey, evm, wcall, bets>>

\* txData, storage.createTransaction(txData) and the return of {transactionHash}
ExecuteSaveTx(r) ==
    /\ req[r].pc = "exe_saveTx"
    /\ LET txData ==
             [hash |-> req[r].txHash, from |-> req[r].user[1].walletAddress,
              to |-> req[r].caddr, contractAddress |-> req[r].caddr,
              status |-> "pending", type |-> "call"]
       IN /\ transactions' = createTransaction(txData)
          /\ req' = [live EXCEPT ![r] =
                       IF transactions' # transactions
                       THEN Respond([@ EXCEPT !.txSaved = TRUE], 200, "ok")
                       ELSE Throw(@, DuplicateKey, "db")]
    /\ UNCHANGED <<users, contracts, chain, started, posted, nextKey, evm, wcall, bets>>

----------------------------------------------------------------------------
(* TransactionService.readContractData, behind POST /api/read *)

\* what a call through the provider may throw: the node is unreachable, or
\* the method is not a view (a provider cannot send transactions)
ReadErrors == {"network unreachable", "contract runner does not support sending transactions"}

\* the body has contractAddress, methodName and args: no username, no password
StartRead(r, contractAddress) ==
    /\ Free(r)
    /\ req' = [live EXCEPT ![r] =
                 [Begin("read", "read_lookup", "", "") EXCEPT !.caddr = contractAddress]]
    /\ started' = started + 1
    /\ UNCHANGED <<users, contracts, transactions, chain, posted, nextKey, evm, wcall, bets>>

\* storage.getContractByAddress and the 'Contract not found' check
ReadLookup(r) ==
    /\ req[r].pc = "read_lookup"
    /\ LET contract == getContractByAddress(req[r].caddr)
       IN req' = [live EXCEPT ![r] =
                    IF Len(contract) = 0
                    THEN Throw(@, ContractError, "service")
                    ELSE [@ EXCEPT !.abi = contract[1].abi, !.pc = "read_call"]]
    /\ UNCHANGED <<users, contracts, transactions, chain, started, posted, nextKey, evm, wcall, bets>>

\* a read that goes out as a transaction
ReadCallSending(r) ==
    /\ req[r].pc = "read_call"
    /\ chain' = Append(chain, ChainTx(NoAddr, req[r].caddr, NoAddr))
    /\ req' = [live EXCEPT ![r] = Respond(@, 200, "result")]
    /\ UNCHANGED <<users, contracts, transactions, started, posted, nextKey, evm, wcall, bets>>

\* contractInstance[methodName](...args) on a contract connected to the
\* provider alone: an eth_call that returns the result, or throws
ReadCall(r) ==
    /\ req[r].pc = "read_call"
    /\ \/ req' = [live EXCEPT ![r] = Respond(@, 200, "result")]
       \/ \E e \in ReadErrors :
            req' = [live EXCEPT ![r] = Throw(@, e, "provider")]
    /\ UNCHANGED <<users, contracts, transactions, chain, started, posted, nextKey, evm, wcall, bets>>

----------------------------------------------------------------------------
(* TransactionService.signAndSendTransaction (no route calls it) *)

StartSign(r, username, password) ==
    /\ Free(r)
    /\ req' = [live EXCEPT ![r] = Begin("sign", "sig_lookup", username, password)]
    /\ started' = started + 1
    /\ UNCHANGED <<users, contracts, transactions, chain, posted, nextKey, evm, wcall, bets>>

SignLookup(r) ==
    /\ req[r].pc = "sig_lookup"
    /\ LET user == getUserByUsername(req[r].username)
       IN req' = [live EXCEPT ![r] =
                    IF ~HasWallet(user)
                    THEN Throw([@ EXCEPT !.gate = "NotFound"], UserError, "service")
                    ELSE [@ EXCEPT !.user = user, !.gate = "Record",
                                   !.pc = "sig_decrypt"]]
    /\ UNCHANGED <<users, contracts, transactions, chain, started, posted, nextKey, evm, wcall, bets>>

SignDecrypt(r) ==
    /\ req[r].pc = "sig_decrypt"
    /\ LET wallet == decryptWallet(req[r].user[1].walletEncryptedJson, req[r].password)
       IN req' = [live EXCEPT ![r] =
                    IF wallet.ok
                    THEN [@ EXCEPT !.decryptTried = TRUE, !.decrypted = TRUE,
                                   !.wallet = wallet, !.pc = "sig_send"]
                    ELSE Throw([@ EXCEPT !.decryptTried = TRUE], DecryptError, "wallet")]
    /\ UNCHANGED <<users, contracts, transactions, chain, started, posted, nextKey, evm, wcall, bets>>

\* provider.getFeeData and connectedWallet.sendTransaction(txData); the
\* transaction response is returned and nothing is persisted
SignSend(r) ==
    /\ req[r].pc = "sig_send"
    /\ \/ LET tx == ChainTx(req[r].wallet.address, NoAddr, NoAddr)
          IN /\ chain' = Append(chain, tx)
             /\ req' = [live EXCEPT ![r] =
                          [@ EXCEPT !.submitted = TRUE, !.txHash = tx.hash,
                                    !.pc = "done"]]
       \/ /\ \E e \in SubmitErrors :
               req' = [live EXCEPT ![r] = Throw(@, e, "provider")]
          /\ UNCHANGED chain
    /\ UNCHANGED <<users, contracts, transactions, started, posted, nextKey, evm, wcall, bets>>

----------------------------------------------------------------------------
(* POST /api/transactions: the client's row goes to createTransaction *)

PostTransaction(hash, status) ==
    /\ posted < MaxPosted
    /\ LET row == [hash |-> hash, from |-> NoAddr, to |-> NoAddr,
                   contractAddress |-> NoAddr, status |-> status, type |-> "call"]
       IN transactions' = createTransaction(row)
    /\ posted' = posted + 1
    /\ req' = live
    /\ UNCHANGED <<users, contracts, chain, started, nextKey, evm, wcall, bets>>

----------------------------------------------------------------------------
(* Table bets, POST /api/bet/test and POST /api/bet/:betId/accept/test *)

\* :betId of a request
BetIds == {1, 2}
\* the mock transaction hash of a test acceptance, made of Date.now() and
\* Math.random()
AcceptHashes == {"test_acceptance_1", "test_acceptance_2"}

\* INSERT INTO bets: id is serial, status defaults to 'open', the acceptor
\* and the transaction hash to NULL
createBet(creatorAddress) ==
    Append(bets, [id |-> Len(bets) + 1, creatorAddress |-> creatorAddress,
                  acceptorAddress |-> NoAddr, status |-> "open",
                  transactionHash |-> ""])

\* SELECT * FROM bets WHERE id = $1
getBet(id) == SelectSeq(bets, LAMBDA b : b.id = id)

\* UPDATE bets SET ... WHERE id = $1 with the fields an acceptance passes
updateBet(id, status, acceptorAddress, transactionHash) ==
    [i \in 1..Len(bets) |->
        IF bets[i].id = id
        THEN [bets[i] EXCEPT !.status = status, !.acceptorAddress = acceptorAddress,
                             !.transactionHash = transactionHash]
        ELSE bets[i]]

\* POST /api/bet/test for a creator who has a wallet: the row is inserted.
\* The handler reads only the creator's users row before the insert, and a
\* users row never changes, so the request is one step.
PostTestBet(username) ==
    /\ Len(bets) < MaxBets
    /\ LET user == getUserByUsername(username)
       IN /\ Len(user) = 1 /\ user[1].walletAddress # NoAddr
          /\ bets' = createBet(user[1].walletAddress)
    /\ req' = live
    /\ UNCHANGED <<users, contracts, transactions, chain, started, posted, nextKey,
                   evm, wcall>>

StartAcceptTest(r, betId, username) ==
    /\ Free(r)
    /\ req' = [live EXCEPT ![r] =
                 [Begin("accept_test", "acc_get", username, "") EXCEPT !.betId = betId]]
    /\ started' = started + 1
    /\ UNCHANGED <<users, contracts, transactions, chain, posted, nextKey, evm, wcall, bets>>

\* storage.getBet, 'Bet not found' and the status !== "open" check
AcceptGet(r) ==
    /\ req[r].pc = "acc_get"
    /\ LET bet == getBet(req[r].betId)
       IN req' = [live EXCEPT ![r] =
                    IF Len(bet) = 0 THEN Respond(@, 404, "Bet not found")
                    ELSE IF bet[1].status # "open"
                    THEN Respond(@, 400, "Bet cannot be accepted")
                    ELSE [@ EXCEPT !.pc = "acc_user"]]
    /\ UNCHANGED <<users, contracts, transactions, chain, started, posted, nextKey,
                   evm, wcall, bets>>

\* storage.getUserByUsername for the acceptor
AcceptUser(r) ==
    /\ req[r].pc = "acc_user"
    /\ LET user == getUserByUsername(req[r].username)
       IN req' = [live EXCEPT ![r] =
                    IF Len(user) = 0 \/ user[1].walletAddress = NoAddr
                    THEN Respond(@, 404, "User or user wallet not found")
                    ELSE [@ EXCEPT !.user = user, !.pc = "acc_update"]]
    /\ UNCHANGED <<users, contracts, transactions, chain, started, posted, nextKey,
                   evm, wcall, bets>>

\* storage.updateBet(betId, {status: "accepted", acceptorAddress,
\* transactionHash}) and the 200 response
AcceptUpdate(r) ==
    /\ req[r].pc = "acc_update"
    /\ \E hash \in AcceptHashes :
          bets' = updateBet(req[r].betId, "accepted", req[r].user[1].walletAddress, hash)
    /\ req' = [live EXCEPT ![r] =
                 Respond([@ EXCEPT !.address = req[r].user[1].walletAddress], 200, "accepted")]
    /\ UNCHANGED <<users, contracts, transactions, chain, started, posted, nextKey,
                   evm, wcall>>

----------------------------------------------------------------------------
(* BettingContract.sol.  One action is one transaction: it runs to the end  *)
(* or reverts, and a revert leaves storage and balances as they were.       *)
(* Amounts are far from 2^256, so of the checked arithmetic only the        *)
(* subtractions can fail.  Bet ids start at 0; bets[betId + 1] is the bet.  *)

\* msg.value of placeBet: below the minimum, the minimum, the maximum, above
BetValues == {1, 2, 4, 5}
\* _predictionTimestamp of placeBet
PredictionTimes == {1, 2}
\* msg.value of depositFunds and of a plain transfer
DepositValues == {0, 3}
\* _amount of withdrawFunds
WithdrawAmounts == {0, 1, 3, 9}

Panic == "panic: arithmetic underflow or overflow (0x11)"
NotOwner == "Ownable: caller is not the owner"

\* a payout that doubles the stake and keeps no house edge
PayoutWithoutEdge(amount) ==
    amount + ((amount * 10000) \div 10000)

\* bet.amount + (bet.amount * (10000 - houseEdgePercent) / 10000)
Payout(amount) ==
    amount + ((amount * (10000 - betting.houseEdgePercent)) \div 10000)

\* a transaction may be sent while the model's budget lasts, by a sender
\* who holds the ether it sends along
CanSend(sender, value) == lastCall.n < MaxCalls /\ ether[sender] >= value

Receipt(fn, sender, value, arg, didWin, reason, payout) ==
    [n |-> lastCall.n + 1, fn |-> fn, sender |-> sender, value |-> value,
     arg |-> arg, didWin |-> didWin,
     status |-> IF reason = "" THEN "success" ELSE "reverted",
     reason |-> reason, payout |-> payout]

\* a placeBet whose minimum is exclusive
placeBetRevertAtMinimum(value, predictionTimestamp) ==
    IF betting.paused THEN "Pausable: paused"
    ELSE IF ~(value > betting.minBetAmount) THEN "Bet amount below minimum"
    ELSE IF ~(value <= betting.maxBetAmount) THEN "Bet amount above maximum"
    ELSE IF ~(predictionTimestamp > blockTime) THEN "Prediction must be in the future"
    ELSE ""

\* the modifier or require of placeBet that reverts, "" when none does
placeBetRevert(value, predictionTimestamp) ==
    IF betting.paused THEN "Pausable: paused"
    ELSE IF ~(value >= betting.minBetAmount) THEN "Bet amount below minimum"
    ELSE IF ~(value <= betting.maxBetAmount) THEN "Bet amount above maximum"
    ELSE IF ~(predictionTimestamp > blockTime) THEN "Prediction must be in the future"
    ELSE ""

\* placeBet(_predictionTimestamp) payable
PlaceBet(sender, value, predictionTimestamp) ==
    /\ CanSend(sender, value)
    /\ LET reason == placeBetRevert(value, predictionTimestamp)
           betId == betting.totalBets
           bet == [bettor |-> sender, amount |-> value,
                   predictionTimestamp |-> predictionTimestamp,
                   isResolved |-> FALSE, didWin |-> FALSE]
       IN /\ lastCall' = Receipt("placeBet", sender, value, predictionTimestamp,
                                 FALSE, reason, 0)
          /\ IF reason = ""
             THEN /\ betting' = [betting EXCEPT
                        !.bets = Append(@, bet),
                        !.userBets[sender] = Append(@, betId),
                        !.totalBets = @ + 1,
                        !.totalContractBalance = @ + value]
                  /\ ether' = [ether EXCEPT ![sender] = @ - value,
                                            !["contract"] = @ + value]
             ELSE UNCHANGED <<betting, ether>>
    /\ UNCHANGED <<server, blockTime, wcall>>

\* a resolution that does not look at isResolved
resolveRevertAgain(sender, betId, didWin) ==
    IF sender # betting.owner THEN NotOwner
    ELSE IF ~(betId < betting.totalBets) THEN "Bet does not exist"
    ELSE LET bet == betting.bets[betId + 1]
         IN IF ~(blockTime >= bet.predictionTimestamp)
            THEN "Cannot resolve before prediction time"
            ELSE IF didWin /\ ~(ether["contract"] >= Payout(bet.amount))
            THEN "Contract has insufficient funds"
            ELSE IF didWin /\ betting.totalContractBalance < Payout(bet.amount)
            THEN Panic
            ELSE ""

\* a resolution that pays without looking at the contract's balance
resolveRevertUnfunded(sender, betId, didWin) ==
    IF sender # betting.owner THEN NotOwner
    ELSE IF ~(betId < betting.totalBets) THEN "Bet does not exist"
    ELSE LET bet == betting.bets[betId + 1]
         IN IF bet.isResolved THEN "Bet already resolved"
            ELSE IF ~(blockTime >= bet.predictionTimestamp)
            THEN "Cannot resolve before prediction time"
            ELSE IF didWin /\ betting.totalContractBalance < Payout(bet.amount)
            THEN Panic
            ELSE ""

\* a resolution without onlyOwner
resolveRevertAnyone(sender, betId, didWin) ==
    IF ~(betId < betting.totalBets) THEN "Bet does not exist"
    ELSE LET bet == betting.bets[betId + 1]
         IN IF bet.isResolved THEN "Bet already resolved"
            ELSE IF ~(blockTime >= bet.predictionTimestamp)
            THEN "Cannot resolve before prediction time"
            ELSE IF didWin /\ ~(ether["contract"] >= Payout(bet.amount))
            THEN "Contract has insufficient funds"
            ELSE IF didWin /\ betting.totalContractBalance < Payout(bet.amount)
            THEN Panic
            ELSE ""

\* the modifier, require or checked subtraction of resolveBet and of
\* resolveRandomBet that reverts, "" when none does
resolveRevert(sender, betId, didWin) ==
    IF sender # betting.owner THEN NotOwner
    ELSE IF ~(betId < betting.totalBets) THEN "Bet does not exist"
    ELSE LET bet == betting.bets[betId + 1]
         IN IF bet.isResolved THEN "Bet already resolved"
            ELSE IF ~(blockTime >= bet.predictionTimestamp)
            THEN "Cannot resolve before prediction time"
            ELSE IF didWin /\ ~(ether["contract"] >= Payout(bet.amount))
            THEN "Contract has insufficient funds"
            ELSE IF didWin /\ betting.totalContractBalance < Payout(bet.amount)
            THEN Panic
            ELSE ""

\* the body resolveBet and resolveRandomBet share: mark the bet, count it,
\* and pay the bettor (an externally owned account) when it won
ResolveUncounted(fn, sender, betId, didWin) ==
    /\ CanSend(sender, 0)
    /\ LET reason == resolveRevert(sender, betId, didWin)
       IN IF reason = ""
          THEN LET bet == betting.bets[betId + 1]
                   payout == IF didWin THEN Payout(bet.amount) ELSE 0
               IN /\ betting' = [betting EXCEPT
                        !.bets[betId + 1].isResolved = TRUE,
                        !.bets[betId + 1].didWin = didWin,
                        !.totalContractBalance = @ - payout]
                  /\ ether' = [a \in DOMAIN ether |->
                                 ether[a] + (IF a = bet.bettor THEN payout ELSE 0)
                                          - (IF a = "contract" THEN payout ELSE 0)]
                  /\ lastCall' = Receipt(fn, sender, 0, betId, didWin, "", payout)
          ELSE /\ lastCall' = Receipt(fn, sender, 0, betId, didWin, reason, 0)
               /\ UNCHANGED <<betting, ether>>
    /\ UNCHANGED <<server, blockTime, wcall>>

\* resolveBet and resolveRandomBet once didWin is known: the requires, the
\* flags and the counter, then the payout
Resolve(fn, sender, betId, didWin) ==
    /\ CanSend(sender, 0)
    /\ LET reason == resolveRevert(sender, betId, didWin)
       IN IF reason = ""
          THEN LET bet == betting.bets[betId + 1]
                   payout == IF didWin THEN Payout(bet.amount) ELSE 0
               IN /\ betting' = [betting EXCEPT
                        !.bets[betId + 1].isResolved = TRUE,
                        !.bets[betId + 1].didWin = didWin,
                        !.totalBetsResolved = @ + 1,
                        !.totalContractBalance = @ - payout]
                  /\ ether' = [a \in DOMAIN ether |->
                                 ether[a] + (IF a = bet.bettor THEN payout ELSE 0)
                                          - (IF a = "contract" THEN payout ELSE 0)]
                  /\ lastCall' = Receipt(fn, sender, 0, betId, didWin, "", payout)
          ELSE /\ lastCall' = Receipt(fn, sender, 0, betId, didWin, reason, 0)
               /\ UNCHANGED <<betting, ether>>
    /\ UNCHANGED <<server, blockTime, wcall>>

\* resolveBet(_betId, _didWin)
ResolveBet(sender, betId, didWin) == Resolve("resolveBet", sender, betId, didWin)

\* resolveRandomBet(_betId): didWin is the parity of a keccak256 of
\* block.timestamp, the id and the bettor, either value to the caller
ResolveRandomBet(sender, betId) ==
    \E didWin \in BOOLEAN : Resolve("resolveRandomBet", sender, betId, didWin)

\* a withdrawal that does not look at the reserved funds
withdrawRevertUnreserved(sender, amount) ==
    IF sender # betting.owner THEN NotOwner
    ELSE IF ~(amount > 0) THEN "Amount must be greater than 0"
    ELSE IF ~(amount <= ether["contract"]) THEN "Insufficient contract balance"
    ELSE ""

\* the modifier, require or checked subtraction of withdrawFunds that reverts
withdrawRevert(sender, amount) ==
    IF sender # betting.owner THEN NotOwner
    ELSE IF ~(amount > 0) THEN "Amount must be greater than 0"
    ELSE IF ~(amount <= ether["contract"]) THEN "Insufficient contract balance"
    ELSE IF ether["contract"] < betting.totalContractBalance THEN Panic
    ELSE IF ~(amount <= ether["contract"] - betting.totalContractBalance)
    THEN "Cannot withdraw reserved funds"
    ELSE ""

\* withdrawFunds(_amount): the amount goes to owner()
WithdrawFunds(sender, amount) ==
    /\ CanSend(sender, 0)
    /\ LET reason == withdrawRevert(sender, amount)
       IN /\ lastCall' = Receipt("withdrawFunds", sender, 0, amount, FALSE, reason, 0)
          /\ IF reason = ""
             THEN ether' = [a \in DOMAIN ether |->
                              ether[a] + (IF a = betting.owner THEN amount ELSE 0)
                                       - (IF a = "contract" THEN amount ELSE 0)]
             ELSE UNCHANGED ether
    /\ UNCHANGED <<server, betting, blockTime, wcall>>

\* depositFunds() payable
DepositFunds(sender, value) ==
    /\ CanSend(sender, value)
    /\ LET reason == IF ~(value > 0) THEN "Deposit amount must be greater than 0" ELSE ""
       IN /\ lastCall' = Receipt("depositFunds", sender, value, 0, FALSE, reason, 0)
          /\ IF reason = ""
             THEN ether' = [ether EXCEPT ![sender] = @ - value, !["contract"] = @ + value]
             ELSE UNCHANGED ether
    /\ UNCHANGED <<server, betting, blockTime, wcall>>

\* receive() external payable: a plain transfer to the contract
Receive(sender, value) ==
    /\ CanSend(sender, value)
    /\ lastCall' = Receipt("receive", sender, value, 0, FALSE, "", 0)
    /\ ether' = [ether EXCEPT ![sender] = @ - value, !["contract"] = @ + value]
    /\ UNCHANGED <<server, betting, blockTime, wcall>>

\* pauseContract() and unpauseContract(): onlyOwner, then Pausable's
\* whenNotPaused and whenPaused
SetPaused(fn, sender, paused) ==
    /\ CanSend(sender, 0)
    /\ LET reason == IF sender # betting.owner THEN NotOwner
                     ELSE IF betting.paused = paused
                          THEN (IF paused THEN "Pausable: paused" ELSE "Pausable: not paused")
                          ELSE ""
       IN /\ lastCall' = Receipt(fn, sender, 0, 0, FALSE, reason, 0)
          /\ betting' = IF reason = "" THEN [betting EXCEPT !.paused = paused] ELSE betting
    /\ UNCHANGED <<server, ether, blockTime, wcall>>

PauseContract(sender) == SetPaused("pauseContract", sender, TRUE)

UnpauseContract(sender) == SetPaused("unpauseContract", sender, FALSE)

\* a block with a later timestamp is mined
Tick ==
    /\ blockTime < MaxTime
    /\ blockTime' = blockTime + 1
    /\ UNCHANGED <<server, betting, ether, lastCall, wcall>>

\* the accounts send transactions to the contract in any order
NextBetting ==
    \/ \E sender \in Accounts :
          \/ \E value \in BetValues, t \in PredictionTimes : PlaceBet(sender, value, t)
          \/ \E betId \in 0..betting.totalBets :
                \/ \E didWin \in BOOLEAN : ResolveBet(sender, betId, didWin)
                \/ ResolveRandomBet(sender, betId)
          \/ \E amount \in WithdrawAmounts : WithdrawFunds(sender, amount)
          \/ \E value \in DepositValues : DepositFunds(sender, value) \/ Receive(sender, value)
          \/ PauseContract(sender) \/ UnpauseContract(sender)
    \/ Tick

SpecBetting == Init /\ [][NextBetting]_vars

----------------------------------------------------------------------------
(* The parameters of the betting contract: the constructor and the setters *)

\* _minBetAmount, _maxBetAmount and _houseEdgePercent a deployment may pass
MinBetArgs == {0, 2}
MaxBetArgs == {2, 4}
HouseEdgeArgs == {500, 1000, 1001}
\* the arguments of setMinBetAmount, setMaxBetAmount and setHouseEdgePercent
NewMinBets == {0, 1, 3, 4, 5}
NewMaxBets == {1, 2, 3, 5}
NewHouseEdges == {0, 1000, 1001}

\* owner() of an address that holds no contract: the zero address
NoOwner == "0x0"

\* no contract at the address yet
Undeployed ==
    [Deployed EXCEPT !.owner = NoOwner, !.minBetAmount = 0, !.maxBetAmount = 0,
                     !.houseEdgePercent = 0]

\* the require of the constructor that reverts, "" when none does
constructorRevert(minBet, maxBet, houseEdge) ==
    IF ~(minBet > 0) THEN "Minimum bet must be greater than 0"
    ELSE IF ~(maxBet > minBet) THEN "Maximum bet must be greater than minimum bet"
    ELSE IF ~(houseEdge <= 1000) THEN "House edge cannot exceed 10%"
    ELSE ""

\* the deployment: Ownable makes the deployer the owner, the constructor
\* checks and stores the parameters; a revert leaves no contract
Constructor(minBet, maxBet, houseEdge) ==
    /\ betting.owner = NoOwner
    /\ CanSend(Owner, 0)
    /\ LET reason == constructorRevert(minBet, maxBet, houseEdge)
       IN /\ lastCall' = Receipt("constructor", Owner, 0, <<minBet, maxBet, houseEdge>>,
                                 FALSE, reason, 0)
          /\ betting' = IF reason = ""
                        THEN [Deployed EXCEPT !.minBetAmount = minBet,
                                              !.maxBetAmount = maxBet,
                                              !.houseEdgePercent = houseEdge]
                        ELSE betting
    /\ UNCHANGED <<server, ether, blockTime, wcall>>

\* a setMinBetAmount that lets the minimum reach the maximum
setMinBetAmountRevertUpToMax(sender, minBet) ==
    IF sender # betting.owner THEN NotOwner
    ELSE IF ~(minBet > 0) THEN "Minimum bet must be greater than 0"
    ELSE IF ~(minBet <= betting.maxBetAmount)
    THEN "Minimum bet must be less than maximum bet"
    ELSE ""

\* the modifier or require of setMinBetAmount that reverts
setMinBetAmountRevert(sender, minBet) ==
    IF sender # betting.owner THEN NotOwner
    ELSE IF ~(minBet > 0) THEN "Minimum bet must be greater than 0"
    ELSE IF ~(minBet < betting.maxBetAmount)
    THEN "Minimum bet must be less than maximum bet"
    ELSE ""

\* setMinBetAmount(_minBetAmount)
SetMinBetAmount(sender, minBet) ==
    /\ betting.owner # NoOwner
    /\ CanSend(sender, 0)
    /\ LET reason == setMinBetAmountRevert(sender, minBet)
       IN /\ lastCall' = Receipt("setMinBetAmount", sender, 0, minBet, FALSE, reason, 0)
          /\ betting' = IF reason = "" THEN [betting EXCEPT !.minBetAmount = minBet]
                        ELSE betting
    /\ UNCHANGED <<server, ether, blockTime, wcall>>

\* the modifier or require of setMaxBetAmount that reverts
setMaxBetAmountRevert(sender, maxBet) ==
    IF sender # betting.owner THEN NotOwner
    ELSE IF ~(maxBet > betting.minBetAmount)
    THEN "Maximum bet must be greater than minimum bet"
    ELSE ""

\* setMaxBetAmount(_maxBetAmount)
SetMaxBetAmount(sender, maxBet) ==
    /\ betting.owner # NoOwner
    /\ CanSend(sender, 0)
    /\ LET reason == setMaxBetAmountRevert(sender, maxBet)
       IN /\ lastCall' = Receipt("setMaxBetAmount", sender, 0, maxBet, FALSE, reason, 0)
          /\ betting' = IF reason = "" THEN [betting EXCEPT !.maxBetAmount = maxBet]
                        ELSE betting
    /\ UNCHANGED <<server, ether, blockTime, wcall>>

\* the modifier or require of setHouseEdgePercent that reverts
setHouseEdgePercentRevert(sender, houseEdge) ==
    IF sender # betting.owner THEN NotOwner
    ELSE IF ~(houseEdge <= 1000) THEN "House edge cannot exceed 10%"
    ELSE ""

\* setHouseEdgePercent(_houseEdgePercent)
SetHouseEdgePercent(sender, houseEdge) ==
    /\ betting.owner # NoOwner
    /\ CanSend(sender, 0)
    /\ LET reason == setHouseEdgePercentRevert(sender, houseEdge)
       IN /\ lastCall' = Receipt("setHouseEdgePercent", sender, 0, houseEdge,
                                 FALSE, reason, 0)
          /\ betting' = IF reason = "" THEN [betting EXCEPT !.houseEdgePercent = houseEdge]
                        ELSE betting
    /\ UNCHANGED <<server, ether, blockTime, wcall>>

\* before the deployment
InitParams ==
    /\ users = <<>> /\ contracts = <<>> /\ transactions = <<>> /\ chain = <<>>
    /\ req = [r \in Slots |-> Idle]
    /\ started = 0 /\ posted = 0 /\ nextKey = 0
    /\ betting = Undeployed
    /\ ether = StartEther
    /\ blockTime = 0
    /\ lastCall = NoCall
    /\ wcall = NoTrial
    /\ bets = <<>>

\* the owner deploys, then the accounts set parameters and place bets
NextParams ==
    \/ \E minBet \in MinBetArgs, maxBet \in MaxBetArgs, houseEdge \in HouseEdgeArgs :
          Constructor(minBet, maxBet, houseEdge)
    \/ \E sender \in Accounts :
          \/ \E minBet \in NewMinBets : SetMinBetAmount(sender, minBet)
          \/ \E maxBet \in NewMaxBets : SetMaxBetAmount(sender, maxBet)
          \/ \E houseEdge \in NewHouseEdges : SetHouseEdgePercent(sender, houseEdge)
          \/ \E value \in BetValues, t \in PredictionTimes :
                betting.owner # NoOwner /\ PlaceBet(sender, value, t)

SpecParams == InitParams /\ [][NextParams]_vars

----------------------------------------------------------------------------
(* The WalletService called directly, with any wallet, password and blob *)

\* private keys Wallet.createRandom may draw, salts randomBytes may draw
Keys == {1, 2}
HashSalts == {"s1", "s2"}
\* what is left of a stored keystore that was cut short or overwritten
DamagedForms == {"truncated", "garbage"}

\* encryptWallet(wallet, password) for the wallet of private key `key`
CallEncryptWallet(key, password) ==
    /\ wcall' = [wcall EXCEPT !.key = key, !.password = password,
                              !.encryptedJson = encryptWallet(key, password),
                              !.tried = "", !.wallet = NoWallet, !.opened = FALSE]
    /\ UNCHANGED <<server, evm>>

\* the stored blob is damaged before it is read back
DamageBlob(form) ==
    /\ wcall.encryptedJson.form = "keystore"
    /\ wcall' = [wcall EXCEPT !.encryptedJson.form = form,
                              !.tried = "", !.wallet = NoWallet, !.opened = FALSE]
    /\ UNCHANGED <<server, evm>>

\* decryptWallet(encryptedJson, password) on the blob as it is stored
CallDecryptWallet(password) ==
    /\ wcall.encryptedJson # NoBlob
    /\ wcall' = [wcall EXCEPT !.tried = password, !.opened = TRUE,
                              !.wallet = decryptWallet(wcall.encryptedJson, password)]
    /\ UNCHANGED <<server, evm>>

\* hashPassword(password), salt being what randomBytes(16) drew
CallHashPassword(password, salt) ==
    /\ wcall' = [wcall EXCEPT !.hashed = password,
                              !.hashedPassword = hashPassword(password, salt),
                              !.checked = "", !.valid = FALSE, !.compared = FALSE]
    /\ UNCHANGED <<server, evm>>

\* verifyPassword(password, hashedPassword) on the last hash
CallVerifyPassword(password) ==
    /\ wcall.hashed # ""
    /\ wcall' = [wcall EXCEPT !.checked = password, !.compared = TRUE,
                              !.valid = verifyPassword(password, wcall.hashedPassword)]
    /\ UNCHANGED <<server, evm>>

NextWallet ==
    \/ \E k \in Keys, p \in Passwords : CallEncryptWallet(k, p)
    \/ \E f \in DamagedForms : DamageBlob(f)
    \/ \E p \in Passwords : CallDecryptWallet(p)
    \/ \E p \in Passwords, salt \in HashSalts : CallHashPassword(p, salt)
    \/ \E p \in Passwords : CallVerifyPassword(p)

SpecWallet == Init /\ [][NextWallet]_vars

----------------------------------------------------------------------------

AccountSteps(r) ==
    \/ RegisterCheck(r) \/ RegisterCreate(r)
    \/ DecryptLookup(r) \/ DecryptOpen(r)

DeploySteps(r) ==
    \/ DeployLookup(r) \/ DeployCompile(r) \/ DeployDecrypt(r)
    \/ DeploySubmit(r) \/ DeployWait(r)
    \/ DeploySaveContract(r) \/ DeploySaveTx(r)

ExecuteSteps(r) ==
    \/ ExecuteLookup(r) \/ ExecuteContract(r) \/ ExecuteDecrypt(r)
    \/ ExecuteSubmit(r) \/ ExecuteSaveTx(r)

SignSteps(r) == SignLookup(r) \/ SignDecrypt(r) \/ SignSend(r)

ReadSteps(r) == ReadLookup(r) \/ ReadCall(r)

Post == \E h \in PostHashes, s \in PostStatuses : PostTransaction(h, s)

\* the client's executeContractMethod posts the row when tx.wait() returned
PostMined == \E h \in PostHashes, s \in MinedStatuses : PostTransaction(h, s)

\* the account, contract and transaction routes together
Next ==
    \/ \E r \in Slots :
         \/ \E u \in Usernames, p \in Passwords :
               \/ StartRegister(r, u, p)
               \/ StartDecrypt(r, u, p)
               \/ StartLogin(r, u, p)
               \/ StartCreateBet(r, u, p)
               \/ StartSign(r, u, p)
               \/ \E t \in ContractTypes : StartDeploy(r, u, p, t)
               \/ \E a \in CallAddrs : StartExecute(r, u, p, a)
         \/ \E a \in CallAddrs : StartRead(r, a)
         \/ AccountSteps(r) \/ LoginVerify(r)
         \/ DeploySteps(r) \/ ExecuteSteps(r) \/ ReadSteps(r) \/ SignSteps(r)
    \/ Post
    \/ PostMined

Spec == Init /\ [][Next]_vars

\* clients that only register and ask for their private key
NextAccounts ==
    \E r \in Slots :
       \/ \E u \in Usernames, p \in Passwords :
             StartRegister(r, u, p) \/ StartDecrypt(r, u, p)
       \/ AccountSteps(r)

SpecAccounts == Init /\ [][NextAccounts]_vars

\* clients that register and log in
NextLogin ==
    \E r \in Slots :
       \/ \E u \in Usernames, p \in Passwords :
             StartRegister(r, u, p) \/ StartLogin(r, u, p)
       \/ RegisterCheck(r) \/ RegisterCreate(r)
       \/ LoginVerify(r)

SpecLogin == Init /\ [][NextLogin]_vars

AcceptSteps(r) == AcceptGet(r) \/ AcceptUser(r) \/ AcceptUpdate(r)

\* clients that register, open test bets and accept them
NextBets ==
    \/ \E r \in Slots :
          \/ \E u \in Usernames, p \in Passwords : StartRegister(r, u, p)
          \/ \E b \in BetIds, u \in Usernames : StartAcceptTest(r, b, u)
          \/ RegisterCheck(r) \/ RegisterCreate(r)
          \/ AcceptSteps(r)
    \/ \E u \in Usernames : PostTestBet(u)

SpecBets == Init /\ [][NextBets]_vars

\* clients that register and deploy contracts
NextDeploy ==
    \E r \in Slots :
       \/ \E u \in Usernames, p \in Passwords :
             \/ StartRegister(r, u, p)
             \/ StartCreateBet(r, u, p)
             \/ \E t \in ContractTypes : StartDeploy(r, u, p, t)
       \/ RegisterCheck(r) \/ RegisterCreate(r)
       \/ DeploySteps(r)

SpecDeploy == Init /\ [][NextDeploy]_vars

\* clients that register, create bets and call the deployed contracts
NextExecute ==
    \E r \in Slots :
       \/ \E u \in Usernames, p \in Passwords :
             \/ StartRegister(r, u, p)
             \/ StartCreateBet(r, u, p)
             \/ \E a \in CallAddrs : StartExecute(r, u, p, a)
       \/ RegisterCheck(r) \/ RegisterCreate(r)
       \/ DeploySteps(r) \/ ExecuteSteps(r)

SpecExecute == Init /\ [][NextExecute]_vars

\* clients that register, create bets and read from the deployed contracts
NextRead ==
    \E r \in Slots :
       \/ \E u \in Usernames, p \in Passwords :
             StartRegister(r, u, p) \/ StartCreateBet(r, u, p)
       \/ \E a \in CallAddrs : StartRead(r, a)
       \/ RegisterCheck(r) \/ RegisterCreate(r)
       \/ DeploySteps(r) \/ ReadSteps(r)

SpecRead == Init /\ [][NextRead]_vars

\* the same clients, who also post transaction rows
NextRecords == NextExecute \/ Post

SpecRecords == Init /\ [][NextRecords]_vars

\* clients that register and create bets, and clients that post the rows of
\* the transactions they sent themselves once these are mined
NextStatus ==
    \/ \E r \in Slots :
          \/ \E u \in Usernames, p \in Passwords :
                StartRegister(r, u, p) \/ StartCreateBet(r, u, p)
          \/ RegisterCheck(r) \/ RegisterCreate(r)
          \/ DeploySteps(r)
    \/ PostMined

SpecStatus == Init /\ [][NextStatus]_vars

----------------------------------------------------------------------------
(* Properties *)

Done(r) == req[r].pc = "done"
Deploying(r) == req[r].route \in {"deploy", "bet"}
Index(s) == 1..Len(s)

\* the Credential Record of the request's username exists and holds a wallet
KnownUser(r) == HasWallet(getUserByUsername(req[r].username))

\* the request touched neither the key, nor the provider, nor the tables
NothingDone(r) ==
    /\ ~req[r].decryptTried /\ ~req[r].decrypted
    /\ ~req[r].submitted /\ req[r].txHash = NoHash
    /\ ~req[r].waited /\ ~req[r].contractSaved /\ ~req[r].txSaved
    /\ \A i \in Index(chain) : chain[i].hash # req[r].txHash

\* C1: no request reaches decryptWallet unless verifyPassword succeeded
\* earlier in the same request.
VerifiedBeforeDecrypt ==
    \A r \in Slots : req[r].decryptTried => req[r].verified

\* C2 as stated: a call whose contract address matches no Contract Record
\* fails with 'Contract not found', and has not decrypted the wallet, sent
\* a transaction or created a Transaction Record.
CallWithoutContractIsContractNotFound ==
    \A r \in Slots :
       (req[r].route = "execute" /\ Done(r)
          /\ Len(getContractByAddress(req[r].caddr)) = 0)
       => (req[r].thrown.message = ContractError /\ NothingDone(r))

\* C2 as amended: such a call fails before the wallet is decrypted and
\* before anything is sent or recorded; the error is 'Contract not found'
\* when the username has a Credential Record with a wallet, and 'User or
\* wallet not found' when it has none.
CallWithoutContractFailsEarly ==
    \A r \in Slots :
       (req[r].route = "execute" /\ Done(r)
          /\ Len(getContractByAddress(req[r].caddr)) = 0)
       => /\ req[r].thrown.message = IF KnownUser(r) THEN ContractError ELSE UserError
          /\ req[r].resp.status = 500
          /\ NothingDone(r)

\* a call by a registered user for an unknown contract has just failed
CallWithoutContractSeen ==
    \E r \in Slots :
       /\ req[r].route = "execute" /\ Done(r) /\ KnownUser(r)
       /\ Len(getContractByAddress(req[r].caddr)) = 0
       /\ req[r].thrown.message = ContractError

\* C3: the authorization check of a request answers NotFound when the
\* username has no Credential Record, InvalidCredential when it has one and
\* verifyPassword is false, and hands the record on otherwise.
AuthorizeOutcome ==
    \A r \in Slots :
       req[r].gate # "none" =>
          LET record == getUserByUsername(req[r].username)
          IN req[r].gate =
               IF Len(record) = 0 THEN "NotFound"
               ELSE IF ~verifyPassword(req[r].password, record[1].password)
                    THEN "InvalidCredential"
                    ELSE "Record"

\* C4: no two Credential Records have the same username, and a registration
\* answers 201 exactly when the one record of its username is the one it
\* inserted (it holds the wallet this request created).
UsernamesUnique ==
    /\ \A i, j \in Index(users) : users[i].username = users[j].username => i = j
    /\ \A r \in Slots :
          (req[r].route = "register" /\ Done(r)) =>
             (req[r].resp.status = 201 <=>
                 /\ req[r].address # NoAddr
                 /\ \E i \in Index(users) :
                       /\ users[i].username = req[r].username
                       /\ users[i].walletAddress = req[r].address)

\* a registration that passed the 'username already taken' check lost the
\* race: its INSERT was rejected
RegistrationRaceLost ==
    \E r \in Slots :
       /\ req[r].route = "register" /\ Done(r)
       /\ req[r].thrown.message = DuplicateKey
       /\ Len(getUserByUsername(req[r].username)) = 1

WalletFieldsTogether ==
    \A i \in Index(users) :
       /\ users[i].walletAddress # NoAddr <=> users[i].walletEncryptedJson # NoBlob
       /\ users[i].walletAddress # NoAddr =>
             users[i].walletAddress = WalletAddr(users[i].walletEncryptedJson.key)

\* two accounts were registered
TwoAccounts == Len(users) = 2

\* C7: deployContract submits, then waits, then persists, then returns.
DeployOrder ==
    \A r \in Slots :
       Deploying(r) =>
          /\ req[r].pc = "dep_wait" => req[r].submitted
          /\ req[r].waited => req[r].submitted
          /\ req[r].submitted <=>
                \E i \in Index(chain) : chain[i].hash = req[r].txHash
          /\ req[r].contractSaved => req[r].waited
          /\ req[r].contractSaved <=>
                (req[r].address # NoAddr /\
                 \E i \in Index(contracts) : contracts[i].address = req[r].address)
          /\ req[r].txSaved => req[r].contractSaved
          /\ req[r].txSaved =>
                \E i \in Index(transactions) : transactions[i].hash = req[r].txHash
          /\ (Done(r) /\ req[r].resp.status = 200) =>
                (req[r].contractSaved /\ req[r].txSaved)
          /\ (Done(r) /\ ~req[r].submitted) =>
                (~req[r].waited /\ ~req[r].contractSaved /\ ~req[r].txSaved
                 /\ req[r].resp.status = 500)

\* a deployment has just returned {address, transactionHash}
DeployReturned ==
    \E r \in Slots : Deploying(r) /\ Done(r) /\ req[r].resp.status = 200

\* the contract types with a template, and the template of each
SupportedTypes == {"SimpleStorage", "ERC20Token", "BettingContract", "Betting Contract"}

\* C8 as stated: a deploy of a type without a template fails with 'Contract
\* type not supported' before anything is decrypted, submitted or persisted;
\* a deploy of a supported type uses that type's template.
UnsupportedTypeIsRejected ==
    \A r \in Slots :
       /\ (Deploying(r) /\ Done(r) /\ req[r].ctype \notin SupportedTypes)
          => (req[r].thrown.message = CompileError /\ NothingDone(r))
       /\ (Deploying(r) /\ req[r].decryptTried) =>
             (req[r].ctype \in SupportedTypes /\ req[r].abi = compileContract(req[r].ctype))

\* C8 as amended: the error is 'Contract type not supported' when the
\* username has a Credential Record with a wallet and 'User or wallet not
\* found' when it has none; in both cases nothing is decrypted, submitted
\* or persisted, and the Contract Records hold the template of their type.
UnsupportedTypeFailsEarly ==
    /\ \A r \in Slots :
          /\ (Deploying(r) /\ Done(r) /\ req[r].ctype \notin SupportedTypes)
             => /\ req[r].thrown.message =
                      IF KnownUser(r) THEN CompileError ELSE UserError
                /\ req[r].resp.status = 500
                /\ NothingDone(r)
          /\ (Deploying(r) /\ req[r].decryptTried) =>
                (req[r].ctype \in SupportedTypes
                 /\ req[r].abi = compileContract(req[r].ctype))
    /\ \A i \in Index(contracts) :
          /\ contracts[i].contractType \in SupportedTypes
          /\ contracts[i].abi = compileContract(contracts[i].contractType)

\* a registered user's deploy of a type without a template has just failed
UnsupportedTypeSeen ==
    \E r \in Slots :
       /\ Deploying(r) /\ Done(r) /\ KnownUser(r)
       /\ req[r].ctype \notin SupportedTypes
       /\ req[r].thrown.message = CompileError

\* C9: when the provider rejects a deploy or a call, the caller of the route
\* receives the provider's message.
ProviderErrorReachesCaller ==
    \A r \in Slots :
       (Done(r) /\ req[r].route \in {"deploy", "bet", "execute"}
          /\ req[r].thrown.origin = "provider")
       => req[r].resp.message = req[r].thrown.message

\* C10: nothing holds a decrypt-and-sign flow back: whatever the other
\* requests do, a flow that is about to decrypt or to submit can do so.
FlowsNotSerialized ==
    \A r \in Slots :
       /\ req[r].pc = "exe_decrypt" => ENABLED ExecuteDecrypt(r)
       /\ req[r].pc = "exe_submit" => ENABLED ExecuteSubmit(r)
       /\ req[r].pc = "dep_decrypt" => ENABLED DeployDecrypt(r)
       /\ req[r].pc = "dep_submit" => ENABLED DeploySubmit(r)

\* two flows for one account have both decrypted the wallet and both
\* submitted a transaction signed with its key, and neither has finished
BothSubmitted ==
    \E r, q \in Slots :
       /\ r # q /\ req[r].username = req[q].username
       /\ ~Done(r) /\ ~Done(q)
       /\ req[r].decrypted /\ req[q].decrypted
       /\ req[r].submitted /\ req[q].submitted
       /\ \E i, j \in Index(chain) :
             /\ i # j /\ chain[i].hash = req[r].txHash /\ chain[j].hash = req[q].txHash
             /\ chain[i].from = chain[j].from

\* the statuses a mined transaction ends in
TerminalStatuses == {"success", "failed"}

\* C11: no step removes a Transaction Record, and a step changes the status
\* of a record only from pending to success or failed; a record that has a
\* terminal status keeps it.
StatusSettlesOnce ==
    [][\A i \in Index(transactions) :
          /\ i \in Index(transactions')
          /\ transactions'[i].hash = transactions[i].hash
          /\ transactions'[i].status # transactions[i].status =>
                (transactions[i].status = "pending"
                 /\ transactions'[i].status \in TerminalStatuses)]_vars

\* a record with a terminal status is stored, the service has since tried
\* to insert a pending record of the same hash, and a later record exists
TerminalRecordKept ==
    /\ \E i, j \in Index(transactions) :
          i < j /\ transactions[i].status \in TerminalStatuses
    /\ \E r \in Slots, i \in Index(transactions) :
          /\ Done(r) /\ req[r].thrown.message = DuplicateKey
          /\ transactions[i].hash = req[r].txHash
          /\ transactions[i].status \in TerminalStatuses

\* C12: decryptWallet returns either the whole wallet or its one error: a
\* failure has the same kind and message whether the password was wrong or
\* the blob was cut short or unreadable, and carries no part of the wallet.
DecryptFailsOpaquely ==
    wcall.opened =>
       IF wcall.wallet.ok
       THEN /\ wcall.encryptedJson.form = "keystore"
            /\ wcall.wallet.privateKey = wcall.encryptedJson.key
            /\ wcall.wallet.address = WalletAddr(wcall.encryptedJson.key)
            /\ wcall.wallet.error = ""
       ELSE /\ wcall.encryptedJson.form # "keystore" \/ wcall.tried # wcall.password
            /\ wcall.wallet.error = DecryptError
            /\ wcall.wallet.privateKey = 0
            /\ wcall.wallet.address = NoAddr

\* decryptWallet has just failed on a damaged blob, with the right password
DamagedBlobRejected ==
    /\ wcall.opened /\ ~wcall.wallet.ok
    /\ wcall.encryptedJson.form \in DamagedForms
    /\ wcall.tried = wcall.password

LoginFailureUniform ==
    /\ \A r \in Slots :
          (req[r].route = "login" /\ Done(r)) =>
             req[r].resp = loginResponse(req[r].username, req[r].password)
    /\ \A u1, u2 \in Usernames, p1, p2 \in Passwords :
          LET known == getUserByUsername(u2)
          IN (/\ Len(getUserByUsername(u1)) = 0
              /\ Len(known) = 1
              /\ ~verifyPassword(p2, known[1].password))
             => loginResponse(u1, p1) = loginResponse(u2, p2)

\* a login with a registered username and a wrong password has just been
\* refused, while another username is not registered
WrongPasswordRefused ==
    \E r \in Slots, u \in Usernames :
       /\ req[r].route = "login" /\ Done(r) /\ req[r].resp.status = 401
       /\ Len(getUserByUsername(req[r].username)) = 1
       /\ ~verifyPassword(req[r].password, getUserByUsername(req[r].username)[1].password)
       /\ Len(getUserByUsername(u)) = 0

\* C16: a step of a read request changes no user, contract or transaction
\* record and sends nothing to the chain, and a read request carries no
\* credentials, never decrypts a wallet and never submits a transaction.
ReadChangesNothing ==
    [][\A r \in Slots :
          (req'[r].route = "read" /\ req'[r] # req[r]) =>
             /\ UNCHANGED <<users, contracts, transactions, chain, nextKey>>
             /\ req'[r].username = "" /\ req'[r].password = ""
             /\ ~req'[r].decryptTried /\ ~req'[r].decrypted
             /\ ~req'[r].submitted /\ ~req'[r].txSaved]_vars

\* a read of a deployed contract has just returned its result
ReadReturned ==
    \E r \in Slots :
       /\ req[r].route = "read" /\ Done(r) /\ req[r].resp.status = 200
       /\ Len(getContractByAddress(req[r].caddr)) = 1
       /\ Len(transactions) = 1 /\ Len(chain) = 1

----------------------------------------------------------------------------
(* Properties of the betting contract *)

\* this step is a transaction sent to the contract
Called == lastCall'.n = lastCall.n + 1

\* this step is a call of resolveBet or resolveRandomBet for an existing bet
\* that is already resolved
ResolvesAgain ==
    /\ Called /\ lastCall'.fn \in {"resolveBet", "resolveRandomBet"}
    /\ lastCall'.arg < betting.totalBets
    /\ betting.bets[lastCall'.arg + 1].isResolved

\* C17 as stated: every resolveBet or resolveRandomBet for a bet that is
\* already resolved reverts with 'Bet already resolved' and changes nothing.
ResolvedOnceWhoeverCalls ==
    [][ResolvesAgain =>
          /\ lastCall'.status = "reverted"
          /\ lastCall'.reason = "Bet already resolved"
          /\ UNCHANGED <<betting, ether>>]_vars

\* C17 as amended: such a call reverts and changes nothing; the reason is
\* 'Bet already resolved' when the owner calls and 'Ownable: caller is not
\* the owner' when anyone else does.  A resolved bet keeps isResolved and
\* didWin for good.
ResolvedOnce ==
    [][/\ ResolvesAgain =>
             /\ lastCall'.status = "reverted"
             /\ lastCall'.reason =
                   IF lastCall'.sender = betting.owner
                   THEN "Bet already resolved" ELSE NotOwner
             /\ UNCHANGED <<betting, ether>>
       /\ \A i \in Index(betting.bets) :
             betting.bets[i].isResolved => betting'.bets[i] = betting.bets[i]]_vars

\* the owner has just tried to resolve a resolved bet again
SecondResolutionReverted ==
    /\ lastCall.fn \in {"resolveBet", "resolveRandomBet"}
    /\ lastCall.sender = betting.owner
    /\ lastCall.status = "reverted" /\ lastCall.reason = "Bet already resolved"
    /\ betting.bets[lastCall.arg + 1].isResolved
    /\ betting.totalBetsResolved = 1

\* ether in the contract beyond totalContractBalance
Unreserved == ether["contract"] - betting.totalContractBalance

\* C18 as stated: withdrawFunds(A) succeeds only if 0 < A <= unreserved,
\* reverts with 'Cannot withdraw reserved funds' otherwise, and succeeds
\* when A is exactly the unreserved amount.
WithdrawalOnlyUnreserved ==
    [][(Called /\ lastCall'.fn = "withdrawFunds") =>
          LET amount == lastCall'.arg
              allowed == amount > 0 /\ amount <= Unreserved
          IN /\ lastCall'.status = "success" => allowed
             /\ ~allowed => (lastCall'.status = "reverted"
                             /\ lastCall'.reason = "Cannot withdraw reserved funds")
             /\ amount = Unreserved => lastCall'.status = "success"]_vars

\* C18 as amended: withdrawFunds(A) succeeds exactly when the owner calls it
\* with 0 < A <= unreserved, and then moves A from the contract to the owner
\* and leaves the storage alone; otherwise it reverts and changes nothing,
\* with the reason of the first check that fails: not the owner, A = 0,
\* A above the contract's balance, A above the unreserved amount.
WithdrawalGuarded ==
    [][(Called /\ lastCall'.fn = "withdrawFunds") =>
          LET amount == lastCall'.arg
              allowed == amount > 0 /\ amount <= Unreserved
          IN /\ Unreserved >= 0
             /\ lastCall'.status = "success" <=>
                   (lastCall'.sender = betting.owner /\ allowed)
             /\ lastCall'.status = "success" =>
                   /\ ether'["contract"] = ether["contract"] - amount
                   /\ ether'[betting.owner] = ether[betting.owner] + amount
                   /\ ether'["contract"] >= betting.totalContractBalance
                   /\ UNCHANGED betting
             /\ lastCall'.status = "reverted" =>
                   /\ UNCHANGED <<betting, ether>>
                   /\ lastCall'.reason =
                         IF lastCall'.sender # betting.owner THEN NotOwner
                         ELSE IF amount = 0 THEN "Amount must be greater than 0"
                         ELSE IF amount > ether["contract"]
                              THEN "Insufficient contract balance"
                              ELSE "Cannot withdraw reserved funds"]_vars

\* the owner has just withdrawn exactly what was unreserved, the stakes of
\* the bets staying in the contract
UnreservedWithdrawn ==
    /\ lastCall.fn = "withdrawFunds" /\ lastCall.status = "success"
    /\ lastCall.arg > 0
    /\ betting.totalContractBalance > 0
    /\ ether["contract"] = betting.totalContractBalance

\* this step is a resolution as won of an existing bet whose payout is more
\* than the ether the contract holds
ResolvesWonUnfunded ==
    /\ Called /\ lastCall'.fn \in {"resolveBet", "resolveRandomBet"}
    /\ lastCall'.didWin
    /\ lastCall'.arg < betting.totalBets
    /\ ether["contract"] < Payout(betting.bets[lastCall'.arg + 1].amount)

PlaceBetChecksValueAndTime ==
    [][(Called /\ lastCall'.fn = "placeBet") =>
          LET sender == lastCall'.sender
              value == lastCall'.value
              predictionTimestamp == lastCall'.arg
              rejected == \/ value < betting.minBetAmount
                          \/ value > betting.maxBetAmount
                          \/ predictionTimestamp <= blockTime
          IN /\ rejected =>
                   (lastCall'.status = "reverted" /\ UNCHANGED <<betting, ether>>)
             /\ (~rejected /\ ~betting.paused) =>
                   /\ lastCall'.status = "success"
                   /\ betting'.totalBets = betting.totalBets + 1
                   /\ betting'.bets =
                         Append(betting.bets,
                                [bettor |-> sender, amount |-> value,
                                 predictionTimestamp |-> predictionTimestamp,
                                 isResolved |-> FALSE, didWin |-> FALSE])
                   /\ betting'.userBets =
                         [betting.userBets EXCEPT ![sender] = Append(@, betting.totalBets)]
                   /\ betting'.totalContractBalance =
                         betting.totalContractBalance + value
                   /\ ether'["contract"] = ether["contract"] + value]_vars

\* bets of the minimum and of the maximum are stored, and a bet on the
\* current block time has just been rejected
BoundaryBetsPlaced ==
    /\ lastCall.fn = "placeBet" /\ lastCall.status = "reverted"
    /\ lastCall.reason = "Prediction must be in the future"
    /\ lastCall.arg = blockTime
    /\ betting.totalBets = 2
    /\ \E i, j \in Index(betting.bets) :
          /\ betting.bets[i].amount = betting.minBetAmount
          /\ betting.bets[j].amount = betting.maxBetAmount

\* this step is a resolveBet or resolveRandomBet that went through
Resolved ==
    /\ Called /\ lastCall'.fn \in {"resolveBet", "resolveRandomBet"}
    /\ lastCall'.status = "success"

\* C21: a resolution that goes through pays amount + amount * (10000 -
\* houseEdgePercent) / 10000, rounded down, when the bet won and 0 when it
\* lost: that amount leaves the contract, reaches the bettor and is the
\* payout of BetResolved, and no other balance moves.
PayoutIsStakePlusWinnings ==
    [][Resolved =>
          LET bet == betting.bets[lastCall'.arg + 1]
              payout == IF lastCall'.didWin
                        THEN bet.amount
                             + (bet.amount * (10000 - betting.houseEdgePercent)) \div 10000
                        ELSE 0
          IN /\ lastCall'.payout = payout
             /\ betting'.bets[lastCall'.arg + 1].didWin = lastCall'.didWin
             /\ \A a \in DOMAIN ether :
                   ether'[a] = ether[a] + (IF a = bet.bettor THEN payout ELSE 0)
                                        - (IF a = "contract" THEN payout ELSE 0)
             /\ betting'.totalContractBalance = betting.totalContractBalance - payout
             /\ (betting.houseEdgePercent = 500 => Payout(100) = 195)]_vars

\* a bet of 2 wei has just won at a 500 basis point edge and was paid 3 wei
\* (2 + 19000 / 10000 rounded down), with which the bettor holds more
\* than before the bet
WinPaid ==
    /\ lastCall.fn \in {"resolveBet", "resolveRandomBet"}
    /\ lastCall.status = "success" /\ lastCall.didWin
    /\ betting.houseEdgePercent = 500
    /\ betting.bets[lastCall.arg + 1].amount = 2
    /\ lastCall.payout = 3
    /\ ether[betting.bets[lastCall.arg + 1].bettor] = StartEther["user1"] + 1

\* this step is a placeBet that went through
Placed == Called /\ lastCall'.fn = "placeBet" /\ lastCall'.status = "success"

\* the ids of the bets of account a, which are the positions in bets less one
BetIdsOf(a) == {i - 1 : i \in {j \in Index(betting.bets) : betting.bets[j].bettor = a}}

\* C22: totalBets is the number of bets placed, whose ids are 0..totalBets-1
\* in the order they were placed; getUserBets lists a user's ids in that
\* order; totalBetsResolved is the number of bets with isResolved set, and is
\* at most totalBets.
CountersMatchBets ==
    /\ [](/\ betting.totalBets = Len(betting.bets)
          /\ \A a \in Accounts :
                /\ {betting.userBets[a][k] : k \in Index(betting.userBets[a])} = BetIdsOf(a)
                /\ \A k, l \in Index(betting.userBets[a]) :
                      k < l => betting.userBets[a][k] < betting.userBets[a][l]
          /\ betting.totalBetsResolved
                = Cardinality({i \in Index(betting.bets) : betting.bets[i].isResolved})
          /\ betting.totalBetsResolved <= betting.totalBets)
    /\ [][IF Placed
          THEN /\ betting'.totalBets = betting.totalBets + 1
               /\ betting'.bets = Append(betting.bets,
                                         [bettor |-> lastCall'.sender,
                                          amount |-> lastCall'.value,
                                          predictionTimestamp |-> lastCall'.arg,
                                          isResolved |-> FALSE, didWin |-> FALSE])
          ELSE /\ betting'.totalBets = betting.totalBets
               /\ Len(betting'.bets) = Len(betting.bets)
               /\ betting'.userBets = betting.userBets]_vars

\* one account has placed two bets, listed as 0 and 1, and the first of them
\* is resolved
TwoBetsOneResolved ==
    /\ betting.totalBets = 2 /\ betting.totalBetsResolved = 1
    /\ betting.userBets["user1"] = <<0, 1>>
    /\ betting.bets[1].isResolved /\ ~betting.bets[2].isResolved

\* the values this call would store for minBetAmount, maxBetAmount and
\* houseEdgePercent if it went through
Proposed ==
    LET fn == lastCall'.fn
        arg == lastCall'.arg
    IN [minBetAmount |-> IF fn = "constructor" THEN arg[1]
                         ELSE IF fn = "setMinBetAmount" THEN arg
                         ELSE betting.minBetAmount,
        maxBetAmount |-> IF fn = "constructor" THEN arg[2]
                         ELSE IF fn = "setMaxBetAmount" THEN arg
                         ELSE betting.maxBetAmount,
        houseEdgePercent |-> IF fn = "constructor" THEN arg[3]
                             ELSE IF fn = "setHouseEdgePercent" THEN arg
                             ELSE betting.houseEdgePercent]

ParametersOf(b) ==
    [minBetAmount |-> b.minBetAmount, maxBetAmount |-> b.maxBetAmount,
     houseEdgePercent |-> b.houseEdgePercent]

WithinLimits(p) ==
    /\ 0 < p.minBetAmount /\ p.minBetAmount < p.maxBetAmount
    /\ p.houseEdgePercent <= 1000

\* C23: a deployed contract always has 0 < minBetAmount < maxBetAmount and
\* houseEdgePercent <= 1000.  The constructor and the three setters revert
\* on a value that would break this, a revert leaves the parameters (and
\* for the constructor, no contract) as they were, and a call of the owner
\* with a value that keeps it stores the value.
ParametersWithinLimits ==
    /\ [](betting.owner # NoOwner => WithinLimits(ParametersOf(betting)))
    /\ [][(Called /\ lastCall'.fn \in {"constructor", "setMinBetAmount",
                                        "setMaxBetAmount", "setHouseEdgePercent"}) =>
             /\ ~WithinLimits(Proposed) => lastCall'.status = "reverted"
             /\ lastCall'.status = "reverted" => betting' = betting
             /\ (WithinLimits(Proposed) /\ lastCall'.sender = Owner) =>
                   /\ lastCall'.status = "success"
                   /\ ParametersOf(betting') = Proposed]_vars

\* the owner has just been refused a minimum equal to the maximum, on a
\* contract whose parameters were changed before
MinimumAtMaximumRefused ==
    /\ lastCall.fn = "setMinBetAmount" /\ lastCall.sender = betting.owner
    /\ lastCall.arg = betting.maxBetAmount
    /\ lastCall.status = "reverted"
    /\ lastCall.reason = "Minimum bet must be less than maximum bet"
    /\ ParametersOf(betting) # ParametersOf(Deployed)

\* C24: resolveBet and resolveRandomBet called by any account but the owner
\* revert and change no bet, counter or balance; every step that resolves a
\* bet is a call of the owner.
OnlyOwnerResolves ==
    [][/\ (Called /\ lastCall'.fn \in {"resolveBet", "resolveRandomBet"}
                  /\ lastCall'.sender # betting.owner) =>
             /\ lastCall'.status = "reverted"
             /\ UNCHANGED <<betting, ether>>
       /\ (\E i \in Index(betting.bets) :
              betting'.bets[i].isResolved /\ ~betting.bets[i].isResolved) =>
             /\ Resolved
             /\ lastCall'.sender = betting.owner]_vars

\* an account that is not the owner has just tried to resolve a bet that
\* was due and unresolved, and the bet is still unresolved
StrangerRefused ==
    /\ lastCall.fn \in {"resolveBet", "resolveRandomBet"}
    /\ lastCall.sender # betting.owner
    /\ lastCall.status = "reverted" /\ lastCall.reason = NotOwner
    /\ lastCall.arg < betting.totalBets
    /\ ~betting.bets[lastCall.arg + 1].isResolved
    /\ blockTime >= betting.bets[lastCall.arg + 1].predictionTimestamp
    /\ betting.totalBetsResolved = 0

\* request r has passed the status check of an acceptance of bet b
PassedOpenCheck(r, b) ==
    /\ req[r].route = "accept_test" /\ req[r].betId = b
    /\ \/ req[r].pc \in {"acc_user", "acc_update"}
       \/ req[r].pc = "done" /\ req[r].resp.status = 200

\* C25: of the requests that accept the same bet at most one passes the
\* status check, and the row of a bet that is accepted is never written
\* again, so that its acceptor stays.
AcceptedAtMostOnce ==
    /\ [](\A r, q \in Slots, b \in BetIds :
             (PassedOpenCheck(r, b) /\ PassedOpenCheck(q, b)) => r = q)
    /\ [][\A i \in Index(bets) :
             bets[i].status = "accepted" => bets'[i] = bets[i]]_vars

\* C26: when executeContractMethod or deployContract has finished, by
\* returning or by throwing, every transaction it submitted has a
\* Transaction Record with its hash.
SubmittedIsRecorded ==
    \A r \in Slots :
       (Done(r) /\ req[r].route \in {"deploy", "bet", "execute"} /\ req[r].submitted) =>
          \E i \in Index(transactions) : transactions[i].hash = req[r].txHash

====
